---- MODULE Spec2Model ----
(***************************************************************************)
(* A model of scripts/transform-pleiades-lp.js: the Pleiades CSV is read,  *)
(* parsed into rows, every row is mapped to a Linked Places Feature or     *)
(* dropped, and the FeatureCollection is written as one JSON file.         *)
(*                                                                         *)
(* A JavaScript string is a sequence of tokens: the whitespace characters  *)
(* " " and "\n", the separators "-", "+", "/" and ",", numerals, and        *)
(* opaque runs of other characters.  A JavaScript value is a record        *)
(* [t, v] (its type tag and its content); an object is a function from    *)
(* its keys to its values and an array of objects is a sequence.           *)
(***************************************************************************)
EXTENDS Integers, Sequences, FiniteSets, TLC

\* The largest number of data lines of a multi-line input file.
MaxRows == 3

----------------------------------------------------------------------------
(* JavaScript values *)

Str(s) == [t |-> "string", v |-> s]
Undefined == [t |-> "undefined", v |-> <<>>]
Null == [t |-> "null", v |-> <<>>]
Num(s) == [t |-> "number", v |-> s]
NaN == [t |-> "number", v |-> <<"NaN">>]
Arr(s) == [t |-> "array", v |-> s]
EmptyObj == [k \in {} |-> Undefined]

\* An object (a Feature) has no type tag of its own.
IsObject(x) == "t" \notin DOMAIN x

\* Boolean(x): "", undefined, null, NaN and 0 are falsy.
Truthy(x) ==
    IF IsObject(x) THEN TRUE
    ELSE CASE x.t = "string" -> x.v # <<>>
           [] x.t = "number" -> x.v \notin {<<"NaN">>, <<"0">>}
           [] x.t = "array" -> TRUE
           [] OTHER -> FALSE

\* row.key: a key the row does not have reads as undefined.
Get(obj, key) == IF key \in DOMAIN obj THEN obj[key] ELSE Undefined

\* '' + x
StringOf(x) ==
    CASE x.t = "undefined" -> <<"undefined">>
      [] x.t = "null" -> <<"null">>
      [] OTHER -> x.v

\* a + b with a string on the left.
Plus(a, b) == Str(StringOf(a) \o StringOf(b))

IsWhitespace(c) == c \in {" ", "\n", "\t"}

RECURSIVE TrimStart(_)
TrimStart(s) ==
    IF s # <<>> /\ IsWhitespace(Head(s)) THEN TrimStart(Tail(s)) ELSE s

RECURSIVE TrimEnd(_)
TrimEnd(s) ==
    IF s # <<>> /\ IsWhitespace(s[Len(s)])
    THEN TrimEnd(SubSeq(s, 1, Len(s) - 1))
    ELSE s

\* String.prototype.trim on the tokens of a string.
Trim(s) == TrimEnd(TrimStart(s))

\* x?.trim(): undefined when x is undefined or null.
OptTrim(x) == IF x.t \in {"undefined", "null"} THEN Undefined ELSE Str(Trim(x.v))

\* s.replace(/\n/g, '')
RemoveNewlines(s) == SelectSeq(s, LAMBDA c : c # "\n")

\* s.trim().replace(/\n/g, '')
TrimNoNewlines(x) == RemoveNewlines(Trim(x.v))

\* s.split(sep): the runs of tokens between the separators.
RECURSIVE SplitFrom(_, _, _)
SplitFrom(s, sep, cur) ==
    IF s = <<>> THEN <<cur>>
    ELSE IF Head(s) = sep THEN <<cur>> \o SplitFrom(Tail(s), sep, <<>>)
    ELSE SplitFrom(Tail(s), sep, Append(cur, Head(s)))

Split(s, sep) == SplitFrom(s, sep, <<>>)

\* parts.join(sep)
RECURSIVE Join(_, _)
Join(parts, sep) ==
    IF parts = <<>> THEN <<>>
    ELSE IF Len(parts) = 1 THEN parts[1]
    ELSE parts[1] \o <<sep>> \o Join(Tail(parts), sep)

\* { ...x }: spreading undefined adds no key.
Spread(x) == IF IsObject(x) THEN x ELSE EmptyObj

----------------------------------------------------------------------------
(* moment(string, format): the dates of the model are the strings           *)
(* year sep month sep day over these tokens; every other string of the      *)
(* model holds no digit and parses to an invalid moment.                    *)

YearTokens == {"1990", "2020", "2021"}
MonthTokens == {"01", "03", "11"}
DayTokens == {"01", "02", "15"}

InvalidMoment == [valid |-> FALSE, y |-> "", m |-> "", d |-> ""]

\* moment(x, "YYYY-MM-DD")
MomentYMD(x) ==
    LET s == StringOf(x)
    IN  IF /\ Len(s) = 5
           /\ s[1] \in YearTokens /\ s[2] = "-" /\ s[3] \in MonthTokens
           /\ s[4] = "-" /\ s[5] \in DayTokens
        THEN [valid |-> TRUE, y |-> s[1], m |-> s[3], d |-> s[5]]
        ELSE InvalidMoment

\* moment(x, "DD/MM/YYYY")
MomentDMY(x) ==
    LET s == StringOf(x)
    IN  IF /\ Len(s) = 5
           /\ s[1] \in DayTokens /\ s[2] = "/" /\ s[3] \in MonthTokens
           /\ s[4] = "/" /\ s[5] \in YearTokens
        THEN [valid |-> TRUE, y |-> s[5], m |-> s[3], d |-> s[1]]
        ELSE InvalidMoment

\* m.format("DD/MM/YYYY"): an invalid moment formats as "Invalid date".
FormatDMY(m) ==
    IF m.valid THEN Str(<<m.d, "/", m.m, "/", m.y>>) ELSE Str(<<"Invalid date">>)

\* m.year(): NaN for an invalid moment.
MomentYear(m) == IF m.valid THEN Num(<<m.y>>) ELSE NaN

\* n.toString()
NumberStringOf(n) == Str(n.v)

\* parseFloat(x): the number a string starts with, after leading
\* whitespace: an optional sign, then a numeral.  A numeral is always one
\* token of a string and a sign a token of its own; a string that starts
\* with anything else parses to NaN.
NumberTokens ==
    {"0", "01", "02", "03", "11", "12.485", "123", "15", "1990", "200.5",
     "2020", "2021", "2058", "249413656", "3176746", "41.892", "456", "640",
     "7000874", "750", "789", "800"}

\* The decimal text of the number a numeral denotes: no leading zero.
NumberText(tok) ==
    CASE tok = "01" -> "1"
      [] tok = "02" -> "2"
      [] tok = "03" -> "3"
      [] OTHER -> tok

ParseFloat(x) ==
    LET s == TrimStart(StringOf(x))
        signed == s # <<>> /\ Head(s) \in {"-", "+"}
        numeral == IF signed THEN Tail(s) ELSE s
    IN  IF numeral # <<>> /\ Head(numeral) \in NumberTokens
        THEN IF signed /\ Head(s) = "-" /\ Head(numeral) # "0"
             THEN Num(<<"-", NumberText(Head(numeral))>>)
             ELSE Num(<<NumberText(Head(numeral))>>)
        ELSE NaN

----------------------------------------------------------------------------
(* The functions of the script *)

\* getPlace(lon, lat): a GeoJSON Point.
getPlace(lon, lat) ==
    [type |-> Str(<<"Point">>), coordinates |-> <<ParseFloat(lon), ParseFloat(lat)>>]

\* getIndexing(): the static dataset metadata.
getIndexing ==
    ("@context" :> Str(<<"https://schema.org/">>))
    @@ ("@type" :> Str(<<"Dataset">>))
    @@ [name |-> Str(<<"Pleiades - AWMC on Peripleo">>),
        description |-> Str(<<"An enriched dataset of Pleiades data">>),
        license |-> Str(<<"https://creativecommons.org/licenses/by/3.0/">>),
        identifier |-> Str(<<"https://atlantides.org/downloads/pleiades/dumps/">>)]

\* types.reduce((all, type) => ({...all, types: [...(all.types || []), {...}]}), {})
RECURSIVE ReduceTypes(_, _)
ReduceTypes(types, all) ==
    IF types = <<>> THEN all
    ELSE ReduceTypes(
            Tail(types),
            ("types" :> Append(IF "types" \in DOMAIN all THEN all.types ELSE <<>>,
                               [identifier |-> Head(types).identifier,
                                label |-> Head(types).label]))
            @@ all)

\* A variant of getTypes that returns the types key with whatever was
\* collected, an empty sequence included.
getTypesAlwaysKey(properties) ==
    LET wikiInstanceOf == Get(properties, "wikiInstanceOf")
        siteSubType == Get(properties, "site_sub_type")
        wikidataEntityID == Get(properties, "wikidataEntityID")
        heritageCategory == Get(properties, "heritage_category")
    IN  [types |->
            (IF Truthy(wikiInstanceOf) /\ Truthy(siteSubType)
             THEN <<[identifier |-> Plus(Str(<<"https://www.wikidata.org/wiki/">>), wikiInstanceOf),
                     label |-> Plus(Str(<<"A Wikidata type: ">>), siteSubType)]>>
             ELSE <<>>)
            \o
            (IF Truthy(wikidataEntityID) /\ Truthy(heritageCategory)
             THEN <<[identifier |-> Plus(Str(<<"https://www.wikidata.org/wiki/">>), wikidataEntityID),
                     label |-> Plus(Str(<<"A Wikidata type: ">>), heritageCategory)]>>
             ELSE <<>>)]

\* getTypes(properties): {} or { types: [...] }.
getTypes(properties) ==
    LET wikiInstanceOf ==
            IF Truthy(Get(properties, "wikiInstanceOf"))
            THEN Plus(Str(<<"https://www.wikidata.org/wiki/">>), Get(properties, "wikiInstanceOf"))
            ELSE Null
        wikidataEntityID ==
            IF Truthy(Get(properties, "wikidataEntityID"))
            THEN Plus(Str(<<"https://www.wikidata.org/wiki/">>), Get(properties, "wikidataEntityID"))
            ELSE Null
        heritageCategory == Get(properties, "heritage_category")
        siteSubType == Get(properties, "site_sub_type")
        first ==
            IF Truthy(wikiInstanceOf) /\ Truthy(siteSubType)
            THEN <<[identifier |-> wikiInstanceOf,
                    label |-> Plus(Str(<<"A Wikidata type: ">>), siteSubType)]>>
            ELSE <<>>
        second ==
            IF Truthy(wikidataEntityID) /\ Truthy(heritageCategory)
            THEN <<[identifier |-> wikidataEntityID,
                    label |-> Plus(Str(<<"A Wikidata type: ">>), heritageCategory)]>>
            ELSE <<>>
    IN  ReduceTypes(first \o second, EmptyObj)

\* commons(file, width) of wikimedia-commons-file-path: the thumbnail URL of
\* a Commons file, in the directories named by the MD5 hash of its name
\* (here the symbolic token sequence md5( name )).
commons(file, width) ==
    LET bare == IF file # <<>> /\ Head(file) = "File:" THEN Tail(file) ELSE file
        name == [i \in 1..Len(bare) |-> IF bare[i] = " " THEN "_" ELSE bare[i]]
    IN  Str(<<"https://upload.wikimedia.org/wikipedia/commons/thumb/", "md5(">>
            \o name \o <<")/">> \o name \o <<"/">> \o width \o <<"px-">> \o name)

\* A variant of getDepiction that returns an empty depictions list for a
\* row with no image reference.
getDepictionEmptyList(row) ==
    IF ~Truthy(Get(row, "commonsID")) THEN [depictions |-> <<>>]
    ELSE LET wikicommons == commons(<<"File:">> \o Get(row, "commonsID").v, <<"800">>)
         IN  [depictions |->
                <<("@id" :> wikicommons)
                  @@ [thumbnail |-> wikicommons,
                      label |-> Str(<<"A depiction of the heritage site sourced via Wikimedia Commons">>)]>>]

\* getDepiction(row): undefined, or { depictions: [one entry] }.
getDepiction(row) ==
    IF ~Truthy(Get(row, "commonsID")) THEN Undefined
    ELSE LET wikicommons == commons(<<"File:">> \o Get(row, "commonsID").v, <<"800">>)
         IN  [depictions |->
                <<("@id" :> wikicommons)
                  @@ [thumbnail |-> wikicommons,
                      label |-> Str(<<"A depiction of the heritage site sourced via Wikimedia Commons">>)]>>]

\* Object.keys(urls): the columns of the link table, in its order.
LinkKeys ==
    <<"item", "wikipedia_en", "geomes_ids", "nomisma_ids",
      "gettytgn_ids", "loc_ids", "viaf_ids", "trismegistos_ids">>

urls ==
    [item |-> <<"http://www.wikidata.org/entity/">>,
     wikipedia_en |-> <<"https://en.wikipedia.org/wiki/">>,
     geomes_ids |-> <<"https://www.geonames.org/">>,
     nomisma_ids |-> <<"https://nomisma.org/id/">>,
     gettytgn_ids |-> <<"http://vocab.getty.edu/page/tgn/">>,
     loc_ids |-> <<"https://id.loc.gov/authorities/subjects/">>,
     viaf_ids |-> <<"https://viaf.org/viaf/">>,
     trismegistos_ids |-> <<"https://www.trismegistos.org/text/">>]

labels ==
    [item |-> <<"A Wikidata entity: ">>,
     wikipedia_en |-> <<"A Wikipedia page: ">>,
     geomes_ids |-> <<"A Geonames page: ">>,
     nomisma_ids |-> <<"A Nomisma ID: ">>,
     gettytgn_ids |-> <<"A Getty TGN ID: ">>,
     loc_ids |-> <<"A Library of Congress ID: ">>,
     viaf_ids |-> <<"A VIAF ID: ">>,
     trismegistos_ids |-> <<"A Trismegistos text: ">>]

\* One step of the reduce of getLinks: the accumulator after key.
LinkStep(acc, key, properties) ==
    IF Truthy(Get(properties, key))
    THEN Append(acc,
            [identifier |-> Plus(Str(urls[key]), Get(properties, key)),
             type |-> Str(<<"seeAlso">>),
             label |-> Plus(Str(labels[key]),
                            IF key = "hasConnectionsWith" THEN Str(<<>>)
                            ELSE Get(properties, key))])
    ELSE acc

RECURSIVE ReduceLinks(_, _, _)
ReduceLinks(keys, acc, properties) ==
    IF keys = <<>> THEN acc
    ELSE ReduceLinks(Tail(keys), LinkStep(acc, Head(keys), properties), properties)

\* A variant of getLinks whose table lacks its last column.
getLinksShortTable(properties) ==
    [links |-> ReduceLinks(SubSeq(LinkKeys, 1, Len(LinkKeys) - 1), <<>>, properties)]

\* A variant of getLinks that, like getTypes, returns no key when no
\* column is populated.
getLinksOmitEmpty(properties) ==
    IF ReduceLinks(LinkKeys, <<>>, properties) = <<>> THEN EmptyObj
    ELSE [links |-> ReduceLinks(LinkKeys, <<>>, properties)]

\* getLinks(properties): { links: [...] }, one entry per populated column.
getLinks(properties) ==
    [links |-> ReduceLinks(LinkKeys, <<>>, properties)]

\* A variant of buildFeature that keeps the place name untrimmed.
buildFeatureNoTrim(record, place, lon, lat, row) ==
    IF ~Truthy(OptTrim(place)) /\ ~Truthy(OptTrim(lon)) THEN Undefined
    ELSE Spread(getLinks(row))
         @@ Spread(getTypes(row))
         @@ Spread(getDepiction(row))
         @@ ("geometry" :> getPlace(lon, lat))
         @@ ("properties" :> (("place" :> place) @@ record.properties))
         @@ record

\* buildFeature(record, place, lon, lat, row): undefined when neither the
\* place name nor the longitude is given; otherwise the record merged with
\* the trimmed place name, the geometry, the depiction, the types and the
\* links, later keys overriding earlier ones.
buildFeature(record, place, lon, lat, row) ==
    IF ~Truthy(OptTrim(place)) /\ ~Truthy(OptTrim(lon)) THEN Undefined
    ELSE Spread(getLinks(row))
         @@ Spread(getTypes(row))
         @@ Spread(getDepiction(row))
         @@ ("geometry" :> getPlace(lon, lat))
         @@ ("properties" :> (("place" :> Str(Trim(place.v))) @@ record.properties))
         @@ record

\* buildFeature throws a TypeError at place.trim() when the place name is
\* undefined and the longitude lets the row through.
buildFeatureThrows(place, lon) ==
    /\ ~(~Truthy(OptTrim(place)) /\ ~Truthy(OptTrim(lon)))
    /\ place.t # "string"

----------------------------------------------------------------------------
(* The body of the map callback, one definition per constant of the code *)

source(row) == Plus(Str(<<"https://pleiades.stoa.org/places/">>), Get(row, "id"))

\* formatDate = dateString => moment(dateString, "YYYY-MM-DD").format("DD/MM/YYYY")
formatDate(dateString) == FormatDMY(MomentYMD(dateString))

formattedDate(row) == formatDate(Get(row, "created"))

\* moment(formattedDate, "DD/MM/YYYY").year().toString() || null
yearAdded(row) ==
    LET year == NumberStringOf(MomentYear(MomentDMY(formattedDate(row))))
    IN  IF Truthy(year) THEN year ELSE Null

modifiedDate(row) == formatDate(Get(row, "modified"))

\* featureTypes ? featureTypes.split(',') : []
placeTypes(row) ==
    IF Truthy(Get(row, "featureTypes"))
    THEN LET parts == Split(Get(row, "featureTypes").v, ",")
         IN  Arr([i \in 1..Len(parts) |-> Str(parts[i])])
    ELSE Arr(<<>>)

\* The four columns the description is assembled from, each trimmed with
\* no guard: a TypeError is thrown when one of them is undefined.
DescriptionColumns == {"description", "authors", "timePeriodsKeys", "id"}

trimmedDescriptionThrows(row) ==
    \E c \in DescriptionColumns : Get(row, c).t # "string"

trimmedDescription(row) ==
    Str(TrimNoNewlines(Get(row, "description"))
        \o <<"<br/>Authors: ">> \o TrimNoNewlines(Get(row, "authors"))
        \o <<"<br/>Time periods associated: ">> \o TrimNoNewlines(Get(row, "timePeriodsKeys"))
        \o <<"<br/>PleiadesID: ">> \o TrimNoNewlines(Get(row, "id")))

\* if (!range) return range; return [range.split('-').join(' to ')];
replaceHyphensInTimePeriodRange(range) ==
    IF ~Truthy(range) THEN range
    ELSE Arr(<<Str(Join(Split(range.v, "-"), " to "))>>)

timePeriodsKeysFormatted(row) ==
    replaceHyphensInTimePeriodRange(Get(row, "timePeriodsKeys"))

\* The columns copied unchanged into properties.
PassedThrough ==
    {"title", "authors", "hasConnectionsWith", "timePeriods", "locationPrecision",
     "minDate", "maxDate", "timePeriodsRange", "geomes_ids", "gettytgn_ids",
     "idaigaz_ids", "loc_ids", "nomisma_ids", "trismegistos_ids", "viaf_ids",
     "wikipedia_en", "commonsID"}

peripleoRecord(row) ==
    ("@id" :> Str(Trim(source(row).v)))
    @@ [type |-> Str(<<"Feature">>),
        properties |->
            [formattedDate |-> formattedDate(row),
             modifiedDate |-> modifiedDate(row),
             yearAdded |-> yearAdded(row),
             placeTypes |-> placeTypes(row),
             timePeriodsKeysFormatted |-> timePeriodsKeysFormatted(row)]
            @@ [c \in PassedThrough |-> Get(row, c)],
        descriptions |-> <<[value |-> trimmedDescription(row)]>>]

\* A variant of the gate that only asks for a location precision.
locationPrecisionGateAnyValue(locationPrecision) ==
    Truthy(locationPrecision)

\* locationPrecision && locationPrecision.trim() !== 'unlocated'
locationPrecisionGate(locationPrecision) ==
    /\ Truthy(locationPrecision)
    /\ Trim(locationPrecision.v) # <<"unlocated">>

\* The callback throws: at the description, or inside buildFeature.
rowThrows(row) ==
    \/ trimmedDescriptionThrows(row)
    \/ /\ locationPrecisionGate(Get(row, "locationPrecision"))
       /\ buildFeatureThrows(Get(row, "title"), Get(row, "reprLong"))

\* What the callback returns for a row it does not throw on.
mapRow(row) ==
    IF locationPrecisionGate(Get(row, "locationPrecision"))
    THEN buildFeature(peripleoRecord(row), Get(row, "title"),
                      Get(row, "reprLong"), Get(row, "reprLat"), row)
    ELSE Undefined

\* A variant of filter(Boolean) that yields the kept elements in reverse.
RECURSIVE Reverse(_)
Reverse(s) == IF s = <<>> THEN <<>> ELSE Append(Reverse(Tail(s)), Head(s))

filterBooleanReversed(array) == Reverse(SelectSeq(array, Truthy))

\* array.filter(Boolean)
filterBoolean(array) == SelectSeq(array, Truthy)

----------------------------------------------------------------------------
(* Papa.parse(csv, { header: true }) and JSON.stringify(fc, null, 2) *)

\* The position of a column in the header line.
ColumnIndex(header, c) == CHOOSE j \in 1..Len(header) : header[j] = c

\* One data line as a row object: a field per header column the line has a
\* value for; a short line leaves the later columns out of the object.
parseLine(header, line) ==
    LET n == IF Len(line) < Len(header) THEN Len(line) ELSE Len(header)
    IN  [c \in {header[j] : j \in 1..n} |-> Str(line[ColumnIndex(header, c)])]

\* records.data: the row objects in the order of the lines.
PapaParse(csv) ==
    [data |-> [i \in 1..Len(csv.lines) |-> parseLine(csv.header, csv.lines[i])]]

\* JSON.stringify leaves out the keys whose value is undefined.
jsonObject(obj) == [k \in {k \in DOMAIN obj : obj[k].t # "undefined"} |-> obj[k]]

\* JSON.stringify writes NaN as null.
jsonNumber(n) == IF n = NaN THEN Null ELSE n

jsonFeature(f) ==
    [k \in DOMAIN f |->
        IF k = "properties" THEN jsonObject(f[k])
        ELSE IF k = "geometry"
        THEN [type |-> f[k].type,
              coordinates |-> <<jsonNumber(f[k].coordinates[1]),
                                jsonNumber(f[k].coordinates[2])>>]
        ELSE f[k]]

\* The text of the document, in the pieces it is written in: the opening
\* with the type and the indexing block, one piece per Feature, the closing.
jsonStringify(doc) ==
    <<[k |-> "open", body |-> doc.indexing]>>
    \o [i \in 1..Len(doc.features) |-> [k |-> "feature", body |-> jsonFeature(doc.features[i])]]
    \o <<[k |-> "close", body |-> EmptyObj]>>

----------------------------------------------------------------------------
(* The input files of the model *)

\* The columns of ../csv/pleiades.csv that the script reads.
FullHeader ==
    <<"authors", "created", "description", "featureTypes", "hasConnectionsWith",
      "id", "locationPrecision", "maxDate", "minDate", "modified", "reprLat",
      "reprLong", "timePeriods", "timePeriodsKeys", "timePeriodsRange", "title",
      "geomes_ids", "gettytgn_ids", "idaigaz_ids", "loc_ids", "nomisma_ids",
      "trismegistos_ids", "viaf_ids", "wikipedia_en", "commonsID", "item",
      "wikiInstanceOf", "site_sub_type", "wikidataEntityID", "heritage_category">>

\* A file whose header has no title column.
NoTitleHeader == SelectSeq(FullHeader, LAMBDA c : c # "title")

Columns == {FullHeader[j] : j \in 1..Len(FullHeader)}

TypeColumns == {"wikiInstanceOf", "site_sub_type", "wikidataEntityID", "heritage_category"}

LinkColumns == {LinkKeys[j] : j \in 1..Len(LinkKeys)}

\* A located place with no external identifier and no image.
FieldsA ==
    [authors |-> <<" ", "T. Elliott">>,
     created |-> <<"1990", "-", "01", "-", "01">>,
     description |-> <<"The forum of Rome", "\n", "in the valley", " ">>,
     featureTypes |-> <<"settlement", ",", "forum">>,
     id |-> <<"123">>,
     locationPrecision |-> <<"precise">>,
     maxDate |-> <<"640">>,
     minDate |-> <<"-", "750">>,
     modified |-> <<"2021", "-", "11", "-", "02">>,
     reprLat |-> <<"41.892">>,
     reprLong |-> <<"12.485">>,
     timePeriods |-> <<"ACHRL">>,
     timePeriodsKeys |-> <<"archaic", "-", "roman">>,
     timePeriodsRange |-> <<"-", "750", ",", "640">>,
     title |-> <<"Forum Romanum">>]

RecA == [c \in Columns |-> IF c \in DOMAIN FieldsA THEN FieldsA[c] ELSE <<>>]

\* The value a populated identifier column holds.
IdValue ==
    [item |-> <<"Q180212">>, wikipedia_en |-> <<"Roman_Forum">>,
     geomes_ids |-> <<"3176746">>, nomisma_ids |-> <<"rome">>,
     gettytgn_ids |-> <<"7000874">>, loc_ids |-> <<"sh85115114">>,
     viaf_ids |-> <<"249413656">>, trismegistos_ids |-> <<"2058">>,
     wikiInstanceOf |-> <<"Q1438">>, site_sub_type |-> <<"forum">>,
     wikidataEntityID |-> <<"Q839954">>, heritage_category |-> <<"archaeological site">>,
     commonsID |-> <<"Roman", " ", "Forum.jpg">>]

\* RecA with the identifier columns of cols populated.
WithIds(rec, cols) == [c \in Columns |-> IF c \in cols THEN IdValue[c] ELSE rec[c]]

\* A second located place: padded identifier, an image, a type, two links.
RecB ==
    WithIds([RecA EXCEPT !.id = <<"456", " ">>,
                         !.title = <<" ", "Roma", " ">>,
                         !.created = <<"2020", "-", "03", "-", "15">>],
            {"commonsID", "wikiInstanceOf", "site_sub_type", "item", "viaf_ids"})

LocationPrecisions == {<<"precise">>, <<"unlocated">>, <<" ", "unlocated", "\n">>, <<>>, <<" ">>}
Titles == {<<"Forum Romanum">>, <<" ", "Roma", " ">>, <<>>, <<" ">>}
Longitudes == {<<"12.485">>, <<"-", "12.485">>, <<>>, <<" ">>}
Dates == {<<"2020", "-", "03", "-", "15">>, <<>>, <<"not-a-date">>}

\* The records of the one-line files: every combination of the gate's
\* three columns, of the two dates, of the type columns, of the link
\* columns, and the image column.
GateRecs ==
    {[RecA EXCEPT !.locationPrecision = lp, !.title = ti, !.reprLong = lon] :
        lp \in LocationPrecisions, ti \in Titles, lon \in Longitudes}

DateRecs == {[RecA EXCEPT !.created = c, !.modified = m] : c \in Dates, m \in Dates}

TypeRecs == {WithIds(RecA, cols) : cols \in SUBSET TypeColumns}

LinkRecs == {WithIds(RecA, cols) : cols \in SUBSET LinkColumns}

ImageRecs == {WithIds(RecA, {"commonsID"})}

\* The data line of a record under a header.
LineOf(header, rec) == [j \in 1..Len(header) |-> rec[header[j]]]

\* The line a trailing line break leaves: one empty field.
BlankLine == << <<>> >>

\* A line that ends before the image column: the row object has no
\* commonsID, item or type column.
ShortLine(rec) ==
    SubSeq(LineOf(FullHeader, rec), 1, ColumnIndex(FullHeader, "commonsID") - 1)

\* The lines of the files of several lines.
SiblingLines ==
    {LineOf(FullHeader, RecA), LineOf(FullHeader, RecB),
     LineOf(FullHeader, [RecA EXCEPT !.locationPrecision = <<"unlocated">>]),
     LineOf(FullHeader, [RecA EXCEPT !.title = <<>>, !.reprLong = <<>>]),
     LineOf(FullHeader, [RecA EXCEPT !.title = <<>>, !.id = <<"789">>]),
     ShortLine(RecB),
     BlankLine}

RECURSIVE SeqsUpTo(_, _)
SeqsUpTo(S, n) ==
    IF n = 0 THEN {<<>>}
    ELSE LET shorter == SeqsUpTo(S, n - 1)
         IN  shorter \cup {Append(q, x) : q \in {q \in shorter : Len(q) = n - 1}, x \in S}

InputFiles ==
    {[header |-> FullHeader, lines |-> ls] : ls \in SeqsUpTo(SiblingLines, MaxRows)}
    \cup {[header |-> FullHeader, lines |-> <<LineOf(FullHeader, r)>>] :
            r \in GateRecs \cup DateRecs \cup TypeRecs \cup LinkRecs \cup ImageRecs}
    \cup {[header |-> NoTitleHeader, lines |-> <<LineOf(NoTitleHeader, r)>>] : r \in GateRecs}
    \cup {[header |-> FullHeader, lines |-> <<ShortLine(r)>>] : r \in {RecA, RecB}}

\* What ../docs/data/pleiades.json holds before the run: nothing, or the
\* complete document of an earlier run.
NoFile == [exists |-> FALSE, text |-> <<>>]
PreviousFile == [exists |-> TRUE, text |-> <<[k |-> "previous", body |-> EmptyObj]>>]

----------------------------------------------------------------------------
(* The run of the script *)

VARIABLES
    pc,          \* the statement the script is at
    inFile,      \* ../csv/pleiades.csv
    outFile,     \* ../docs/data/pleiades.json
    recordsCsv,  \* the text read
    records,     \* Papa.parse's result
    mapped,      \* the array map is building, one element per row done
    features,    \* the array after filter(Boolean)
    fc           \* the FeatureCollection

vars == <<pc, inFile, outFile, recordsCsv, records, mapped, features, fc>>

NoCsv == [header |-> <<>>, lines |-> <<>>]
NoRecords == [data |-> <<>>]
NoFc == [type |-> Str(<<>>), indexing |-> EmptyObj, features |-> <<>>]

Init ==
    /\ pc = "start"
    /\ inFile \in InputFiles
    /\ outFile \in {NoFile, PreviousFile}
    /\ recordsCsv = NoCsv
    /\ records = NoRecords
    /\ mapped = <<>>
    /\ features = <<>>
    /\ fc = NoFc

\* fs.readFileSync('../csv/pleiades.csv', ...) returns the text.
ReadInput ==
    /\ pc = "start"
    /\ recordsCsv' = inFile
    /\ pc' = "read"
    /\ UNCHANGED <<inFile, outFile, records, mapped, features, fc>>

\* A variant of the failed read in which the error is caught and the run
\* goes on with an empty text.
ReadInputFailsSwallowed ==
    /\ pc = "start"
    /\ recordsCsv' = [header |-> inFile.header, lines |-> <<>>]
    /\ pc' = "read"
    /\ UNCHANGED <<inFile, outFile, records, mapped, features, fc>>

\* fs.readFileSync throws (no such file, no permission): the script ends.
ReadInputFails ==
    /\ pc = "start"
    /\ pc' = "readFailed"
    /\ UNCHANGED <<inFile, outFile, recordsCsv, records, mapped, features, fc>>

\* const records = Papa.parse(recordsCsv, { header: true })
Parse ==
    /\ pc = "read"
    /\ records' = PapaParse(recordsCsv)
    /\ pc' = "map"
    /\ UNCHANGED <<inFile, outFile, recordsCsv, mapped, features, fc>>

\* The map callback on the next row, returning its Feature or undefined.
MapRow ==
    /\ pc = "map"
    /\ Len(mapped) < Len(records.data)
    /\ LET row == records.data[Len(mapped) + 1]
       IN  /\ ~rowThrows(row)
           /\ mapped' = Append(mapped, mapRow(row))
    /\ UNCHANGED <<pc, inFile, outFile, recordsCsv, records, features, fc>>

\* The map callback throws a TypeError on the next row: nothing catches
\* it and the script ends.
MapRowThrows ==
    /\ pc = "map"
    /\ Len(mapped) < Len(records.data)
    /\ rowThrows(records.data[Len(mapped) + 1])
    /\ pc' = "threw"
    /\ UNCHANGED <<inFile, outFile, recordsCsv, records, mapped, features, fc>>

\* .filter(Boolean) once every row is mapped, then the FeatureCollection.
Collect ==
    /\ pc = "map"
    /\ Len(mapped) = Len(records.data)
    /\ features' = filterBoolean(mapped)
    /\ fc' = [type |-> Str(<<"FeatureCollection">>),
              indexing |-> getIndexing,
              features |-> features']
    /\ pc' = "write"
    /\ UNCHANGED <<inFile, outFile, recordsCsv, records, mapped>>

\* fs.writeFileSync opens the output path for writing, which empties it.
OpenOutput ==
    /\ pc = "write"
    /\ outFile' = [exists |-> TRUE, text |-> <<>>]
    /\ pc' = "writing"
    /\ UNCHANGED <<inFile, recordsCsv, records, mapped, features, fc>>

\* The open fails (no directory, no permission): the path is untouched.
OpenOutputFails ==
    /\ pc = "write"
    /\ pc' = "writeFailed"
    /\ UNCHANGED <<inFile, outFile, recordsCsv, records, mapped, features, fc>>

\* The next piece of the text reaches the file.
WritePiece ==
    /\ pc = "writing"
    /\ Len(outFile.text) < Len(jsonStringify(fc))
    /\ outFile' = [outFile EXCEPT !.text =
                      Append(@, jsonStringify(fc)[Len(outFile.text) + 1])]
    /\ UNCHANGED <<pc, inFile, recordsCsv, records, mapped, features, fc>>

\* A write fails (disk full, I/O error): writeFileSync throws with the
\* file holding what was written so far.
WritePieceFails ==
    /\ pc = "writing"
    /\ Len(outFile.text) < Len(jsonStringify(fc))
    /\ pc' = "writeFailed"
    /\ UNCHANGED <<inFile, outFile, recordsCsv, records, mapped, features, fc>>

\* The whole text is written and the file is closed.
CloseOutput ==
    /\ pc = "writing"
    /\ Len(outFile.text) = Len(jsonStringify(fc))
    /\ pc' = "done"
    /\ UNCHANGED <<inFile, outFile, recordsCsv, records, mapped, features, fc>>

Next ==
    \/ ReadInput
    \/ ReadInputFails
    \/ Parse
    \/ MapRow
    \/ MapRowThrows
    \/ Collect
    \/ OpenOutput
    \/ OpenOutputFails
    \/ WritePiece
    \/ WritePieceFails
    \/ CloseOutput

Spec == Init /\ [][Next]_vars

----------------------------------------------------------------------------
(* Properties *)

Rows == records.data

\* The FeatureCollection has been built.
OutputBuilt == pc \in {"write", "writing", "writeFailed", "done"}

\* A column holding a non-empty string.
NonEmpty(x) == x.t = "string" /\ x.v # <<>>

\* A column that is missing or empty once trimmed.
TrimmedEmpty(x) == x.t # "string" \/ Trim(x.v) = <<>>

IsUnlocated(row) ==
    /\ Get(row, "locationPrecision").t = "string"
    /\ Trim(Get(row, "locationPrecision").v) = <<"unlocated">>

Placeless(row) ==
    TrimmedEmpty(Get(row, "title")) /\ TrimmedEmpty(Get(row, "reprLong"))

\* The rows the code lets through: a non-empty location precision other
\* than "unlocated", and a place name or a longitude.
PassesGate(row) ==
    /\ NonEmpty(Get(row, "locationPrecision"))
    /\ ~IsUnlocated(row)
    /\ ~Placeless(row)

\* C1: a row whose locationPrecision is "unlocated", and a row whose title
\* and longitude are both empty after trimming, yields no Feature: the map
\* callback returns no Feature for it, and every Feature of the output is
\* the Feature of a row that is neither.
C1_UnlocatedOrPlacelessDropped ==
    /\ \A i \in 1..Len(mapped) :
          (IsUnlocated(Rows[i]) \/ Placeless(Rows[i])) => ~IsObject(mapped[i])
    /\ OutputBuilt =>
          \A k \in 1..Len(fc.features) :
             \E i \in 1..Len(mapped) :
                /\ ~IsUnlocated(Rows[i]) /\ ~Placeless(Rows[i])
                /\ fc.features[k] = mapped[i]

C1_Witness ==
    /\ pc = "done"
    /\ \E i, j, k \in 1..Len(mapped) :
          /\ IsUnlocated(Rows[i])
          /\ Placeless(Rows[j]) /\ ~IsUnlocated(Rows[j])
          /\ IsObject(mapped[k])
    /\ Len(fc.features) = 1

\* The gate as C2 states it.
C2_Gate(row) == ~IsUnlocated(row) /\ ~Placeless(row)

\* C2: a row becomes a Feature if and only if its trimmed location
\* precision is not "unlocated" and its trimmed title or its trimmed
\* longitude is non-empty: no such row is dropped and none aborts the run,
\* a row with an empty locationPrecision or a missing title included.
C2_FeatureIffGate ==
    /\ \A i \in 1..Len(mapped) : IsObject(mapped[i]) <=> C2_Gate(Rows[i])
    /\ pc = "threw" => ~C2_Gate(Rows[Len(mapped) + 1])

\* C3 as stated: every Feature of the output has a non-empty @id, a
\* geometry and a non-empty trimmed place name.
C3_NonEmptyPlace ==
    OutputBuilt =>
       \A k \in 1..Len(fc.features) :
          /\ fc.features[k]["@id"].v # <<>>
          /\ "geometry" \in DOMAIN fc.features[k]
          /\ fc.features[k].properties.place.v # <<>>

\* C3 as amended: every Feature has a non-empty @id, a geometry, and as
\* its place name the trimmed title of its row; the place name is
\* non-empty unless the row's trimmed longitude is non-empty.
C3_PlaceIsTrimmedTitle ==
    /\ \A i \in 1..Len(mapped) :
          IsObject(mapped[i]) =>
             /\ mapped[i]["@id"].v # <<>>
             /\ "geometry" \in DOMAIN mapped[i]
             /\ mapped[i].properties.place = Str(Trim(Get(Rows[i], "title").v))
             /\ \/ mapped[i].properties.place.v # <<>>
                \/ ~TrimmedEmpty(Get(Rows[i], "reprLong"))
    /\ OutputBuilt =>
          \A k \in 1..Len(fc.features) :
             \E i \in 1..Len(mapped) : fc.features[k] = mapped[i]

C3_Witness ==
    /\ pc = "done"
    /\ \E k, l \in 1..Len(fc.features) :
          /\ fc.features[k].properties.place = Str(<<"Roma">>)
          /\ fc.features[k].properties.title = Str(<<" ", "Roma", " ">>)
          /\ fc.features[l].properties.place = Str(<<>>)

\* A created date that is empty or not a YYYY-MM-DD date.
InvalidCreated(row) ==
    LET c == Get(row, "created")
    IN  ~(/\ c.t = "string" /\ Len(c.v) = 5
          /\ c.v[1] \in YearTokens /\ c.v[2] = "-" /\ c.v[3] \in MonthTokens
          /\ c.v[4] = "-" /\ c.v[5] \in DayTokens)

\* C4: for a row whose created date is empty or not a date, the Feature's
\* formattedDate is absent, not a string, and its yearAdded is null.
C4_InvalidDateIsAbsent ==
    \A i \in 1..Len(mapped) :
       (IsObject(mapped[i]) /\ InvalidCreated(Rows[i])) =>
          /\ mapped[i].properties.formattedDate.t # "string"
          /\ mapped[i].properties.yearAdded = Null

\* C5: no defect of one row (a missing or empty column, the short row of
\* a trailing blank line) aborts the run.
C5_NoRowAbortsRun == pc # "threw"

\* The positions of the rows that pass the gate, and the k-th of them.
PassingRows == {i \in 1..Len(Rows) : PassesGate(Rows[i])}

KthPassing(k) ==
    CHOOSE i \in PassingRows : Cardinality({j \in PassingRows : j <= i}) = k

\* The @id the Feature of a row carries.
IdOf(row) == Str(<<"https://pleiades.stoa.org/places/">> \o Trim(Get(row, "id").v))

\* C6: the features of the output are the Features of the rows that pass
\* the gate, one each, in the order of the rows; each is what its own row
\* alone maps to, whatever its siblings are.
C6_FeaturesInRowOrder ==
    OutputBuilt =>
       /\ Len(fc.features) = Cardinality(PassingRows)
       /\ \A k \in 1..Len(fc.features) :
             /\ fc.features[k] = mapped[KthPassing(k)]
             /\ fc.features[k] = mapRow(Rows[KthPassing(k)])
             /\ fc.features[k]["@id"] = IdOf(Rows[KthPassing(k)])

C6_Witness ==
    /\ pc = "done"
    /\ Len(Rows) = 3
    /\ PassingRows = {1, 3}
    /\ Len(fc.features) = 2
    /\ fc.features[1]["@id"] = Str(<<"https://pleiades.stoa.org/places/", "456">>)
    /\ fc.features[2]["@id"] = Str(<<"https://pleiades.stoa.org/places/", "123">>)

\* The link entries C7 states for a row: one per populated column of the
\* link table, in the order of the table.
C7_Links(row) ==
    LET populated == SelectSeq(LinkKeys, LAMBDA key : NonEmpty(Get(row, key)))
    IN  [j \in 1..Len(populated) |->
            [identifier |-> Str(urls[populated[j]] \o Get(row, populated[j]).v),
             type |-> Str(<<"seeAlso">>),
             label |-> Str(labels[populated[j]] \o Get(row, populated[j]).v)]]

\* C7: the links of every Feature are exactly one entry per non-empty
\* column of the link table, in table order, each with identifier = URL
\* prefix + value, type "seeAlso" and label = label prefix + value.
C7_LinksPerPopulatedColumn ==
    \A i \in 1..Len(mapped) :
       IsObject(mapped[i]) =>
          /\ "links" \in DOMAIN mapped[i]
          /\ mapped[i].links = C7_Links(Rows[i])

C7_Witness ==
    /\ pc = "done"
    /\ Len(fc.features) = 1
    /\ \A j \in 1..Len(LinkKeys) : NonEmpty(Get(Rows[1], LinkKeys[j]))
    /\ Len(fc.features[1].links) = Len(LinkKeys)
    /\ fc.features[1].links[3].identifier = Str(<<"https://www.geonames.org/", "3176746">>)

\* The type entries C8 states for a row: one per complete pair.
C8_Types(row) ==
    (IF NonEmpty(Get(row, "wikiInstanceOf")) /\ NonEmpty(Get(row, "site_sub_type"))
     THEN <<[identifier |-> Str(<<"https://www.wikidata.org/wiki/">> \o Get(row, "wikiInstanceOf").v),
             label |-> Str(<<"A Wikidata type: ">> \o Get(row, "site_sub_type").v)]>>
     ELSE <<>>)
    \o
    (IF NonEmpty(Get(row, "wikidataEntityID")) /\ NonEmpty(Get(row, "heritage_category"))
     THEN <<[identifier |-> Str(<<"https://www.wikidata.org/wiki/">> \o Get(row, "wikidataEntityID").v),
             label |-> Str(<<"A Wikidata type: ">> \o Get(row, "heritage_category").v)]>>
     ELSE <<>>)

\* C8: a Feature has a types key if and only if one of the two pairs is
\* complete; the key then holds one entry per complete pair, the first
\* pair's first; with no complete pair the key is absent.
C8_TypesIffCompletePair ==
    \A i \in 1..Len(mapped) :
       IsObject(mapped[i]) =>
          /\ "types" \in DOMAIN mapped[i] <=> C8_Types(Rows[i]) # <<>>
          /\ "types" \in DOMAIN mapped[i] => mapped[i].types = C8_Types(Rows[i])

C8_Witness ==
    /\ pc = "done"
    /\ Len(fc.features) = 1
    /\ "types" \in DOMAIN fc.features[1]
    /\ Len(fc.features[1].types) = 2
    /\ fc.features[1].types[1].identifier = Str(<<"https://www.wikidata.org/wiki/", "Q1438">>)
    /\ fc.features[1].types[2].label = Str(<<"A Wikidata type: ", "archaeological site">>)

\* C9: a Feature has a depictions key if and only if its row's commonsID
\* is non-empty; the key then holds one entry whose @id and thumbnail are
\* the same URL, resolved from the commonsID.
C9_DepictionsIffImage ==
    \A i \in 1..Len(mapped) :
       IsObject(mapped[i]) =>
          /\ "depictions" \in DOMAIN mapped[i] <=> NonEmpty(Get(Rows[i], "commonsID"))
          /\ "depictions" \in DOMAIN mapped[i] =>
                /\ Len(mapped[i].depictions) = 1
                /\ mapped[i].depictions[1]["@id"] = mapped[i].depictions[1].thumbnail
                /\ mapped[i].depictions[1]["@id"] =
                      commons(<<"File:">> \o Get(Rows[i], "commonsID").v, <<"800">>)

C9_Witness ==
    /\ pc = "done"
    /\ Len(fc.features) = 2
    /\ "depictions" \in DOMAIN fc.features[1]
    /\ fc.features[1].depictions[1].thumbnail.v # <<>>
    /\ "depictions" \notin DOMAIN fc.features[2]
    /\ NonEmpty(Get(Rows[1], "commonsID"))
    /\ "commonsID" \notin DOMAIN Rows[2]

\* C10: after a failed write the output path holds the complete previous
\* output or nothing, never a part of the new document.
C10_FailedWriteLeavesNoPartialOutput ==
    pc = "writeFailed" => outFile \in {NoFile, PreviousFile}

\* The place of a statement in the order read, parse, transform, write.
PhaseRank(at) ==
    CASE at = "start" -> 0
      [] at = "read" -> 1
      [] at = "map" -> 2
      [] at = "write" -> 3
      [] at = "writing" -> 4
      [] OTHER -> 5

\* The run has ended, normally or with an uncaught error.
Ended == pc \in {"readFailed", "threw", "writeFailed", "done"}

\* C11: the run goes through read, parse, transform, write in that order
\* and never back; once it has ended (a failed read included) nothing
\* changes; rows are transformed only from the parsed text of the input
\* file; the output file changes only in the write, after every row of
\* the input file has been transformed, and it is opened at most once.
C11_PhasesInOrder ==
    [][/\ ~Ended
       /\ PhaseRank(pc') >= PhaseRank(pc)
       /\ mapped' # mapped =>
             /\ pc = "map"
             /\ recordsCsv = inFile
             /\ records = PapaParse(inFile)
             /\ outFile' = outFile
       /\ outFile' # outFile =>
             /\ pc \in {"write", "writing"}
             /\ recordsCsv = inFile
             /\ records = PapaParse(inFile)
             /\ Len(mapped) = Len(inFile.lines)
       /\ pc' = "writing" /\ pc # "writing" => pc = "write" /\ outFile'.text = <<>>
       /\ pc' = "readFailed" =>
             /\ pc = "start"
             /\ UNCHANGED <<outFile, recordsCsv, records, mapped, features, fc>>
      ]_vars

\* A failed read of a file of three lines, with a previous output in place.
C11_Witness ==
    /\ pc = "readFailed"
    /\ Len(inFile.lines) = 3
    /\ outFile = PreviousFile
    /\ records = NoRecords
    /\ mapped = <<>>

\* Every column of the link table is empty or missing in the row.
NoLinkColumn(row) == \A j \in 1..Len(LinkKeys) : ~NonEmpty(Get(row, LinkKeys[j]))

\* C12: every Feature of the output has a links key, and the Feature of a
\* row with every link column empty has the empty sequence as its links.
C12_LinksAlwaysPresent ==
    /\ OutputBuilt =>
          \A k \in 1..Len(fc.features) : "links" \in DOMAIN fc.features[k]
    /\ \A i \in 1..Len(mapped) :
          (IsObject(mapped[i]) /\ NoLinkColumn(Rows[i])) =>
             "links" \in DOMAIN mapped[i] /\ mapped[i].links = <<>>

\* A written Feature with no depictions, no types and an empty links.
C12_Witness ==
    /\ pc = "done"
    /\ \E k \in 1..Len(fc.features) :
          /\ "depictions" \notin DOMAIN fc.features[k]
          /\ "types" \notin DOMAIN fc.features[k]
          /\ "links" \in DOMAIN fc.features[k]
          /\ fc.features[k].links = <<>>
    /\ \E i \in 1..Len(mapped) : IsObject(mapped[i]) /\ NoLinkColumn(Rows[i])

====
